---- MODULE Spec2Model ----
(***************************************************************************)
(* A model of src/school.js (node-school-kr 2.2.2): class School, which   *)
(* resolves a school identity against the EDUTYPE / REGION catalogs,       *)
(* builds the portal URL of a meal or calendar page and hands it to the    *)
(* Meal / Calendar fetcher.                                                *)
(*                                                                         *)
(* JavaScript values are tagged records, so that the language's coercions  *)
(* (truthiness, typeof, ToNumber for < and >, template-literal and         *)
(* toString stringification) are computed as the interpreter computes      *)
(* them.  An Error thrown by the code is modelled by the name the          *)
(* specification gives to its message.                                     *)
(***************************************************************************)
EXTENDS Integers, Sequences, FiniteSets, TLC

VARIABLES
    eduType,      \* this._eduType
    region,       \* this._region
    schoolCode,   \* this._schoolCode
    initialized,  \* this._initialized
    phase,        \* "new": constructor not run yet; "failed": it threw; "live": it returned
    pending,      \* per fetcher, the getData() promises not settled yet
    last          \* the most recent operation: its arguments and its outcome

vars == <<eduType, region, schoolCode, initialized, phase, pending, last>>

identity == <<eduType, region, schoolCode, initialized>>

----------------------------------------------------------------------------
(* Bounds *)

\* At most this many getData() promises are in flight at once.
MaxPending == 2

----------------------------------------------------------------------------
(* JavaScript values *)

Undef == [t |-> "undefined"]
Num(n) == [t |-> "number", n |-> n]
Str(s) == [t |-> "string", s |-> s]
Bool(b) == [t |-> "boolean", b |-> b]
EmptyArray == [t |-> "array"]
Obj(props) == [t |-> "object", props |-> props]

\* typeof v
TypeOf(v) == IF v.t = "array" THEN "object" ELSE v.t

\* ToBoolean(v): what `v && ...`, `v || ...` and `if (v)` test
Truthy(v) ==
    CASE v.t = "undefined" -> FALSE
      [] v.t = "number"    -> v.n # 0
      [] v.t = "string"    -> v.s # ""
      [] v.t = "boolean"   -> v.b
      [] OTHER             -> TRUE

\* a || b
Or(a, b) == IF Truthy(a) THEN a ELSE b

\* o.name: a property the object does not have reads as undefined
GetProp(o, name) == IF name \in DOMAIN o.props THEN o.props[name] ELSE Undef

Digit(d) ==
    CASE d = 0 -> "0" [] d = 1 -> "1" [] d = 2 -> "2" [] d = 3 -> "3" [] d = 4 -> "4"
      [] d = 5 -> "5" [] d = 6 -> "6" [] d = 7 -> "7" [] d = 8 -> "8" [] d = 9 -> "9"

RECURSIVE NatToString(_)
NatToString(n) == IF n < 10 THEN Digit(n) ELSE NatToString(n \div 10) \o Digit(n % 10)

\* Number.prototype.toString() of an integer
NumToString(n) == IF n < 0 THEN "-" \o NatToString(-n) ELSE NatToString(n)

\* v.toString() / `${v}` for the primitive values the code stringifies
ToStr(v) ==
    CASE v.t = "undefined" -> "undefined"
      [] v.t = "number"    -> NumToString(v.n)
      [] v.t = "string"    -> v.s
      [] v.t = "boolean"   -> IF v.b THEN "true" ELSE "false"
      [] v.t = "array"     -> ""
      [] OTHER             -> "[object Object]"

NaN == [nan |-> TRUE, n |-> 0]

\* ToNumber(v), which < and > apply to a non-number operand
ToNumber(v) ==
    CASE v.t = "number"    -> [nan |-> FALSE, n |-> v.n]
      [] v.t = "boolean"   -> [nan |-> FALSE, n |-> IF v.b THEN 1 ELSE 0]
      [] v.t = "string"    ->
           IF v.s = "" THEN [nan |-> FALSE, n |-> 0]
           ELSE IF \E k \in -99..999 : NumToString(k) = v.s
                THEN [nan |-> FALSE, n |-> CHOOSE k \in -99..999 : NumToString(k) = v.s]
                ELSE NaN
      [] v.t = "array"     -> [nan |-> FALSE, n |-> 0]
      [] OTHER             -> NaN

\* v < k and v > k for a number literal k: false when v converts to NaN
Less(v, k) == LET x == ToNumber(v) IN ~x.nan /\ x.n < k
Greater(v, k) == LET x == ToNumber(v) IN ~x.nan /\ x.n > k

----------------------------------------------------------------------------
(* data/data.js: the catalogs and the portal paths *)

EDUTYPE == [KINDERGARTEN |-> Num(1), ELEMENTARY |-> Num(2), MIDDLE |-> Num(3), HIGH |-> Num(4)]

REGION == [SEOUL |-> Str("stu.sen.go.kr"), BUSAN |-> Str("stu.pen.go.kr")]

mealUrl == "sts_sci_md00_001.do"

calendarUrl == "sts_sci_sf01_001.do"

\* catalog[key]
Lookup(catalog, key) ==
    IF key.t = "string" /\ key.s \in DOMAIN catalog THEN catalog[key.s] ELSE Undef

----------------------------------------------------------------------------
(* Errors, by the name the specification gives each message *)

NoError == ""
ConfigurationError == "ConfigurationError"
NotInitializedError == "NotInitializedError"
UnknownKindError == "UnknownKindError"
IncompleteDateError == "IncompleteDateError"
MonthRangeError == "MonthRangeError"

\* An operation's outcome: the Error it threw, or the value it returned and the
\* getData(url, defaultValue) call it made on a fetcher, if any.
Throw(e) == [err |-> e, ret |-> Undef, fetcher |-> "", furl |-> "", fdef |-> Undef]
Return(v) == [err |-> NoError, ret |-> v, fetcher |-> "", furl |-> "", fdef |-> Undef]
GetData(f, url, def) == [err |-> NoError, ret |-> Undef, fetcher |-> f, furl |-> url, fdef |-> def]

----------------------------------------------------------------------------
(* The methods of School, as functions of this and their arguments *)

\* A kind string is a sequence of characters, so that toLowerCase is computed.
MEAL == <<"m", "e", "a", "l">>
CALENDAR == <<"c", "a", "l", "e", "n", "d", "a", "r">>

LowerChar(c) ==
    CASE c = "A" -> "a" [] c = "C" -> "c" [] c = "D" -> "d" [] c = "E" -> "e"
      [] c = "L" -> "l" [] c = "M" -> "m" [] c = "N" -> "n" [] c = "R" -> "r"
      [] OTHER -> c

toLowerCase(s) == [i \in 1..Len(s) |-> LowerChar(s[i])]

\* monthFormat with its length test off by one (>= 2 for > 2)
monthFormatSlip(month) ==
    LET s == ToStr(month) IN
    IF Len(s) >= 2 THEN ""
    ELSE IF s = "" \/ Len(s) = 2 THEN s
    ELSE "0" \o s

\* monthFormat(month), for a month that has a toString method
monthFormat(month) ==
    LET s == ToStr(month) IN
    IF Len(s) > 2 THEN ""
    ELSE IF s = "" \/ Len(s) = 2 THEN s
    ELSE "0" \o s

\* createUrl(type, year, month)
createUrl(type, year, month) ==
    IF Truthy(initialized)
    THEN LET typeString == toLowerCase(type) IN
         IF typeString # MEAL /\ typeString # CALENDAR
         THEN Throw(UnknownKindError)
         ELSE LET typeUrl == IF typeString = MEAL THEN mealUrl ELSE calendarUrl IN
              Return(Str("https://" \o ToStr(region) \o "/" \o typeUrl \o "?"
                         \o "schulCode=" \o ToStr(schoolCode) \o "&"
                         \o "schulCrseScCode=" \o ToStr(eduType) \o "&"
                         \o "schulKndScCode=0" \o ToStr(eduType) \o "&"
                         \o "ay=" \o ToStr(Or(year, Str(""))) \o "&"
                         \o "mm=" \o monthFormat(Or(month, Str(""))) \o "&"))
    ELSE Throw(NotInitializedError)

\* The test both getTargetURL and the positional branch of getMeal / getCalendar make
DateComplete(year, month) ==
    \/ year # Undef /\ month # Undef
    \/ year = Undef /\ month = Undef

\* getTargetURL without its date test
getTargetURLSlip(type, year, month) == createUrl(type, year, month)

\* getTargetURL(type, year, month)
getTargetURL(type, year, month) ==
    IF ~DateComplete(year, month)
    THEN Throw(IncompleteDateError)
    ELSE createUrl(type, year, month)

\* The range test with its lower limit off by one (month < 0 for month < 1)
MonthOutOfRangeSlip(month) == Less(month, 0) \/ Greater(month, 12)

\* month < 1 || month > 12
MonthOutOfRange(month) == Less(month, 1) \/ Greater(month, 12)

\* getMeal(year, month), up to the call of this._meal.getData
getMeal(yearArg, monthArg) ==
    LET isOption == TypeOf(yearArg) = "object"
        option   == IF isOption THEN yearArg ELSE Obj(<< >>)
        year     == IF isOption THEN GetProp(option, "year") ELSE yearArg
        month    == IF isOption THEN GetProp(option, "month") ELSE monthArg
    IN  IF ~isOption /\ ~DateComplete(year, month)
        THEN Throw(IncompleteDateError)
        ELSE IF MonthOutOfRange(month)
        THEN Throw(MonthRangeError)
        ELSE IF Truthy(initialized)
        THEN LET defaultMealValue == Or(GetProp(Or(option, Obj(<< >>)), "default"), Str(""))
                 url == createUrl(MEAL, year, month)
             IN  IF url.err # NoError THEN url
                 ELSE GetData("meal", url.ret.s, defaultMealValue)
        ELSE Throw(NotInitializedError)

\* getCalendar as a copy of getMeal that kept the meal kind and the meal fetcher
getCalendarSlip(yearArg, monthArg) ==
    LET isOption == TypeOf(yearArg) = "object"
        option   == IF isOption THEN yearArg ELSE Obj(<< >>)
        year     == IF isOption THEN GetProp(option, "yaer") ELSE yearArg
        month    == IF isOption THEN GetProp(option, "month") ELSE monthArg
    IN  IF ~isOption /\ ~DateComplete(year, month)
        THEN Throw(IncompleteDateError)
        ELSE IF MonthOutOfRange(month)
        THEN Throw(MonthRangeError)
        ELSE IF Truthy(initialized)
        THEN LET defaultCalendarValue == Or(GetProp(Or(option, Obj(<< >>)), "default"), Str(""))
                 url == createUrl(MEAL, year, month)
             IN  IF url.err # NoError THEN url
                 ELSE GetData("meal", url.ret.s, defaultCalendarValue)
        ELSE Throw(NotInitializedError)

\* getCalendar(year, month), up to the call of this._calendar.getData
getCalendar(yearArg, monthArg) ==
    LET isOption == TypeOf(yearArg) = "object"
        option   == IF isOption THEN yearArg ELSE Obj(<< >>)
        year     == IF isOption THEN GetProp(option, "yaer") ELSE yearArg
        month    == IF isOption THEN GetProp(option, "month") ELSE monthArg
    IN  IF ~isOption /\ ~DateComplete(year, month)
        THEN Throw(IncompleteDateError)
        ELSE IF MonthOutOfRange(month)
        THEN Throw(MonthRangeError)
        ELSE IF Truthy(initialized)
        THEN LET defaultCalendarValue == Or(GetProp(Or(option, Obj(<< >>)), "default"), Str(""))
                 url == createUrl(CALENDAR, year, month)
             IN  IF url.err # NoError THEN url
                 ELSE GetData("calendar", url.ret.s, defaultCalendarValue)
        ELSE Throw(NotInitializedError)

----------------------------------------------------------------------------
(* The arguments callers pass *)

TypeArgs == {Undef, Str(""), Str("HIGH"), Str("UNIVERSITY")}
RegionArgs == {Undef, Str(""), Str("SEOUL"), Str("ATLANTIS")}
CodeArgs == {Undef, Str(""), Str("B100000465")}

Years == {Undef, Num(0), Num(2024)}
MonthNums == {0, 1, 12, 13}
Months == {Undef, Str("")} \cup {Num(n) : n \in MonthNums}
Kinds == {MEAL, <<"M", "E", "A", "L">>, <<"C", "a", "l", "e", "n", "d", "a", "r">>,
          <<"l", "u", "n", "c", "h">>}
MonthFormatArgs == {Num(n) : n \in MonthNums \cup {-1, 5, 123}} \cup {Str(""), Str("5"), Str("05"), Str("abc")}

\* Options objects: each of year, month and default is present or not.
Absent == [t |-> "absent"]
OptionYears == {Absent, Num(2024)}
OptionMonths == {Absent, Str(""), Num(1), Num(12), Num(13)}
OptionDefaults == {Absent, Num(0), Bool(FALSE), EmptyArray, Str("none")}
Option(y, m, d) ==
    LET v == [year |-> y, month |-> m, default |-> d] IN
    Obj([k \in {n \in {"year", "month", "default"} : v[n] # Absent} |-> v[k]])
Options == {Option(y, m, d) : y \in OptionYears, m \in OptionMonths, d \in OptionDefaults}

\* (year, month) as getMeal / getCalendar receive them: positional, or an options object
QueryArgs == (Years \X Months) \cup (Options \X {Undef})

FetchResults == {Str("data"), EmptyArray}

----------------------------------------------------------------------------
(* The state machine *)

NoKind == << >>

Op(name, kind, a1, a2, a3, r) ==
    [op |-> name, kind |-> kind, a1 |-> a1, a2 |-> a2, a3 |-> a3,
     err |-> r.err, ret |-> r.ret, fetcher |-> r.fetcher, furl |-> r.furl, fdef |-> r.fdef]

Init ==
    /\ eduType = Undef
    /\ region = Undef
    /\ schoolCode = Undef
    /\ initialized = Undef
    /\ phase = "new"
    /\ pending = [f \in {"meal", "calendar"} |-> 0]
    /\ last = Op("none", NoKind, Undef, Undef, Undef, Return(Undef))

\* new School(type, region, schoolCode)
Construct(type, reg, code) ==
    /\ phase = "new"
    /\ IF Truthy(initialized)
       THEN /\ last' = Op("new", NoKind, type, reg, code, Throw(ConfigurationError))
            /\ phase' = "failed"
            /\ UNCHANGED identity
       ELSE IF Truthy(type) /\ Truthy(reg) /\ Truthy(code)
       THEN /\ eduType' = Lookup(EDUTYPE, type)
            /\ region' = Lookup(REGION, reg)
            /\ schoolCode' = code
            /\ initialized' = Bool(TRUE)
            /\ phase' = "live"
            /\ last' = Op("new", NoKind, type, reg, code, Return(Undef))
       ELSE /\ last' = Op("new", NoKind, type, reg, code, Throw(ConfigurationError))
            /\ phase' = "failed"
            /\ UNCHANGED identity
    /\ UNCHANGED pending

\* A caller holds the object once the constructor is over; an object whose
\* constructor threw is the non-finalized identity the methods guard against.
Callable == phase # "new"

CallMonthFormat(month) ==
    /\ Callable
    /\ last' = Op("monthFormat", NoKind, month, Undef, Undef, Return(Str(monthFormat(month))))
    /\ UNCHANGED <<identity, phase, pending>>

\* createUrl dropping the finalized flag when it rejects the kind
CallCreateUrlSlip(type, year, month) ==
    /\ Callable
    /\ last' = Op("createUrl", type, year, month, Undef, createUrl(type, year, month))
    /\ initialized' = IF createUrl(type, year, month).err = UnknownKindError
                      THEN Bool(FALSE) ELSE initialized
    /\ UNCHANGED <<eduType, region, schoolCode, phase, pending>>

CallCreateUrl(type, year, month) ==
    /\ Callable
    /\ last' = Op("createUrl", type, year, month, Undef, createUrl(type, year, month))
    /\ UNCHANGED <<identity, phase, pending>>

CallGetTargetURL(type, year, month) ==
    /\ Callable
    /\ last' = Op("getTargetURL", type, year, month, Undef, getTargetURL(type, year, month))
    /\ UNCHANGED <<identity, phase, pending>>

\* The synchronous part of an async method: it throws (the promise is rejected), or
\* it calls getData and is suspended until the fetcher's promise settles.
Dispatch(name, yearArg, monthArg, r) ==
    /\ Callable
    /\ r.fetcher # "" => pending["meal"] + pending["calendar"] < MaxPending
    /\ last' = Op(name, NoKind, yearArg, monthArg, Undef, r)
    /\ pending' = IF r.fetcher = "" THEN pending
                  ELSE [pending EXCEPT ![r.fetcher] = @ + 1]
    /\ UNCHANGED <<identity, phase>>

CallGetMeal(yearArg, monthArg) ==
    Dispatch("getMeal", yearArg, monthArg, getMeal(yearArg, monthArg))

CallGetCalendar(yearArg, monthArg) ==
    Dispatch("getCalendar", yearArg, monthArg, getCalendar(yearArg, monthArg))

\* A fetcher's promise is fulfilled with `data`: the suspended method returns it.
Fulfil(f, data) ==
    /\ pending[f] > 0
    /\ pending' = [pending EXCEPT ![f] = @ - 1]
    /\ last' = Op("fulfil", NoKind, data, Undef, Undef,
                  [Return(data) EXCEPT !.fetcher = f])
    /\ UNCHANGED <<identity, phase>>

Next ==
    \/ \E type \in TypeArgs, reg \in RegionArgs, code \in CodeArgs : Construct(type, reg, code)
    \/ \E month \in MonthFormatArgs : CallMonthFormat(month)
    \/ \E type \in Kinds, year \in Years, month \in Months : CallCreateUrl(type, year, month)
    \/ \E type \in Kinds, year \in Years, month \in Months : CallGetTargetURL(type, year, month)
    \/ \E a \in QueryArgs : CallGetMeal(a[1], a[2])
    \/ \E a \in QueryArgs : CallGetCalendar(a[1], a[2])
    \/ \E f \in {"meal", "calendar"}, data \in FetchResults : Fulfil(f, data)

Spec == Init /\ [][Next]_vars

----------------------------------------------------------------------------
(* What the claims speak of, read off the caller's arguments *)

IsOptionsCall == TypeOf(last.a1) = "object"

\* The year and month the caller specified, positionally or in the options object
GivenYear == IF IsOptionsCall THEN GetProp(last.a1, "year") ELSE last.a1
GivenMonth == IF IsOptionsCall THEN GetProp(last.a1, "month") ELSE last.a2

ExactlyOne(y, m) == (y = Undef) # (m = Undef)

InRange(m) == m.t = "number" /\ m.n \in 1..12

InCatalog(catalog, key) == key.t = "string" /\ key.s \in DOMAIN catalog

IsFetch == last.op \in {"getMeal", "getCalendar"}

IsQuery == last.op \in {"createUrl", "getTargetURL", "getMeal", "getCalendar"}

\* The URL of section 4.3 for a kind's path, a year and a month
PortalUrl(path, y, m) ==
    "https://" \o ToStr(region) \o "/" \o path \o "?schulCode=" \o ToStr(schoolCode)
    \o "&schulCrseScCode=" \o ToStr(eduType) \o "&schulKndScCode=0" \o ToStr(eduType)
    \o "&ay=" \o (IF y = Undef THEN "" ELSE ToStr(y))
    \o "&mm=" \o (IF m = Undef THEN "" ELSE monthFormat(m)) \o "&"

----------------------------------------------------------------------------
(* The claims *)

\* C1: construction succeeds exactly for the triples whose type and region are
\* catalog members and whose code is non-empty, fails with ConfigurationError
\* for every other triple, and no finalized identity holds an undefined type
\* code or region host.
C1_ConstructionResolves ==
    /\ last.op = "new" =>
         IF InCatalog(EDUTYPE, last.a1) /\ InCatalog(REGION, last.a2) /\ Truthy(last.a3)
         THEN last.err = NoError /\ phase = "live"
         ELSE last.err = ConfigurationError /\ phase = "failed"
    /\ Truthy(initialized) => eduType # Undef /\ region # Undef

\* C2: getMeal and getCalendar fail with IncompleteDateError exactly when one
\* of year and month is specified and the other is not, in the positional form
\* and in the options form alike (stated of a finalized identity, where no
\* other test of the method stands in for this one).
C2_PartialDateRejected ==
    (IsFetch /\ Truthy(initialized)) =>
        (last.err = IncompleteDateError <=> ExactlyOne(GivenYear, GivenMonth))

\* C3: on a finalized identity, a call with the options object {year: y, month: m},
\* m in 1..12, hands the fetcher the URL the positional call (y, m) hands it.
C3_OptionsUrlIsPositionalUrl ==
    (IsFetch /\ IsOptionsCall /\ Truthy(initialized)
       /\ GivenYear # Undef /\ InRange(GivenMonth)) =>
         /\ last.fetcher # ""
         /\ last.furl = (IF last.op = "getMeal"
                         THEN getMeal(GivenYear, GivenMonth)
                         ELSE getCalendar(GivenYear, GivenMonth)).furl
         /\ last.furl = PortalUrl(IF last.op = "getMeal" THEN mealUrl ELSE calendarUrl,
                                  GivenYear, GivenMonth)

C6_UrlShape ==
    (last.op = "createUrl" /\ Truthy(initialized)) =>
        IF toLowerCase(last.kind) = MEAL
        THEN last.err = NoError /\ last.ret = Str(PortalUrl(mealUrl, last.a1, last.a2))
        ELSE IF toLowerCase(last.kind) = CALENDAR
        THEN last.err = NoError /\ last.ret = Str(PortalUrl(calendarUrl, last.a1, last.a2))
        ELSE last.err = UnknownKindError

\* C7: the second argument of getData is the options object's default field,
\* whatever it holds, and the empty string in a positional or bare call; the
\* caller receives what the fetcher returned.
C7_DefaultPassedThrough ==
    /\ (IsFetch /\ last.fetcher # "") =>
          last.fdef = IF IsOptionsCall /\ "default" \in DOMAIN last.a1.props
                      THEN last.a1.props["default"]
                      ELSE Str("")
    /\ last.op = "fulfil" => last.ret = last.a1

\* C8: monthFormat always returns: the empty string for a string form longer
\* than 2, the string form itself when it is empty or of length 2, and "0"
\* before it when it is of length 1; so 5 gives "05", 12 gives "12", "" gives
\* "", 123 gives "", and every result has length 0 or 2.
C8_MonthFormat ==
    last.op = "monthFormat" =>
        LET s == IF last.a1.t = "number" THEN NumToString(last.a1.n) ELSE last.a1.s
            r == last.ret.s
        IN  /\ last.err = NoError
            /\ Len(s) > 2 => r = ""
            /\ Len(s) \in {0, 2} => r = s
            /\ Len(s) = 1 => r = "0" \o s
            /\ Len(r) \in {0, 2}
            /\ last.a1 = Num(5) => r = "05"
            /\ last.a1 = Num(12) => r = "12"
            /\ last.a1 = Str("") => r = ""
            /\ last.a1 = Num(123) => r = ""

C8_Witness ==
    /\ last.op = "monthFormat"
    /\ last.a1 = Num(5)
    /\ last.ret = Str("05")

\* C9: once the constructor is over, no step (a createUrl, getTargetURL,
\* getMeal or getCalendar call, failing or not, or a fetcher settling while
\* other calls are suspended) changes the type code, region host, school code or
\* initialized flag; createUrl called again with the arguments of a call just
\* made gives that call's outcome; and the URL a call hands its fetcher is the
\* one built from its own arguments, whatever else is in flight.
C9_IdentityFrozen ==
    [][phase # "new" =>
         /\ identity' = identity
         /\ (last'.op = "createUrl") =>
               LET again == createUrl(last.kind, last.a1, last.a2)' IN
               again.err = last'.err /\ again.ret = last'.ret
         /\ (last'.op = "getMeal" /\ last'.fetcher # "") =>
               last'.furl = getMeal(last'.a1, last'.a2).furl
         /\ (last'.op = "getCalendar" /\ last'.fetcher # "") =>
               last'.furl = getCalendar(last'.a1, last'.a2).furl]_vars

C9_Witness ==
    /\ phase = "live"
    /\ pending["meal"] > 0
    /\ pending["calendar"] > 0
    /\ last.op = "createUrl"
    /\ last.err = UnknownKindError

\* C10: a getMeal or getCalendar call that fails (IncompleteDateError,
\* MonthRangeError, NotInitializedError, UnknownKindError) calls no fetcher;
\* one that passes the tests calls its own fetcher once, with a URL built for
\* its own kind, and never the other fetcher.
ValidMonths == {m \in Months : m = Undef \/ InRange(m)}
MealUrls == {PortalUrl(mealUrl, y, m) : y \in Years, m \in ValidMonths}
CalendarUrls == {PortalUrl(calendarUrl, y, m) : y \in Years, m \in ValidMonths}

Calls(f) == pending'[f] - pending[f]

====
